---- MODULE Spec2Model ----
(***************************************************************************)
(* A model of the image/animation codec of pixooapi (src/pixooapi/pixoo.py)*)
(* and of the command glue it is driven through.                            *)
(*                                                                          *)
(*   SpecEnc  the Frame Encoder, _fileToFrames, applied to one source, and  *)
(*            the pixel reconstruction of _imageDataToGIF applied to the    *)
(*            packet it returns;                                            *)
(*   SpecGif  one sendGIF call, statement by statement, with the commands   *)
(*            it hands to sendCommand and the requests callPixooAPI makes;  *)
(*   SpecBin  one _binFileToGIF call on a device asset file.                *)
(*                                                                          *)
(* Representation.  A byte is a number in 0..255.  A base64 string is the   *)
(* sequence of its characters, each written as its index in the base64      *)
(* alphabet (0..63), the padding character '=' as 64.  An image is a record *)
(* [w, h, seed]: its pixel at column x and row y is _pixel(im, x, y).  A     *)
(* frame duration is a fraction <<num, den>> of milliseconds (Pillow gives  *)
(* whole numbers for GIF and fractions for APNG), NoDuration when the frame *)
(* carries none.  A Python dict is a function on the strings of its keys.   *)
(***************************************************************************)
EXTENDS Integers, Sequences, FiniteSets, TLC

\* ---------------------------------------------------------------- bounds

\* The most frames an animated source holds.
MaxSrcFrames == 3

\* The largest maxFrames argument tried on _fileToFrames.
MaxCap == 3

\* The most sources in the list handed to sendGIF.
MaxSources == 3

\* ------------------------------------------------------ program constants

\* size=64, the default target size of _fileToFrames.
DefaultSize == 64

\* maxFrames=60, the default frame cap of _fileToFrames.
DefaultMaxFrames == 60

\* duration = 1000, the duration of a frame that carries none.
DefaultDuration == 1000

\* GIFType, the values of the enumeration.
GIFType == [SDFILE |-> 0, SDFOLDER |-> 1, URL |-> 2, DATA |-> 3, LOCALFILE |-> 4, URLDATA |-> 5]

\* The sizes a GIFData may carry ("Can be 16, 32 or 64").
GIFSizes == {16, 32, 64}

\* ------------------------------------------------------------ the values

None == [class |-> "NoneType"]

NoDuration == <<>>

\* The colour of the pixel at column x, row y of an image: three bytes.
_pixel(im, x, y) ==
  << (im.seed + 31 * x + 17 * y) % 256,
     (3 * im.seed + 7 * x + 101 * y + 1) % 256,
     (5 * im.seed + 13 * x + 3 * y + 2) % 256 >>

\* list(imgrgb.getdata()): the pixels as a list of (R, G, B), row by row.
getdata(im) ==
  [k \in 1..(im.w * im.h) |-> _pixel(im, (k - 1) % im.w, (k - 1) \div im.w)]

\* [item for p in pixels for item in p] with the channels in a wrong order.
flatten_bgr(px) ==
  [i \in 1..(3 * Len(px)) |-> px[((i - 1) \div 3) + 1][3 - ((i - 1) % 3)]]

\* [item for p in list(imgrgb.getdata()) for item in p]
flatten(px) ==
  [i \in 1..(3 * Len(px)) |-> px[((i - 1) \div 3) + 1][((i - 1) % 3) + 1]]

\* 64 ^ (3 - p): the weight of the p-th character (0..3) of a base64 group.
SextetWeight(p) == CASE p = 0 -> 262144 [] p = 1 -> 4096 [] p = 2 -> 64 [] OTHER -> 1

\* 256 ^ (2 - q): the weight of the q-th byte (0..2) of a base64 group.
OctetWeight(q) == CASE q = 0 -> 65536 [] q = 1 -> 256 [] OTHER -> 1

\* base64.b64encode(bytearray(pixels)).decode("utf-8")
b64encode(bytes) ==
  LET n == Len(bytes)
      at(i) == IF i <= n THEN bytes[i] ELSE 0
  IN  [j \in 1..(4 * ((n + 2) \div 3)) |->
         LET g == (j - 1) \div 4
             p == (j - 1) % 4
             t == at(3 * g + 1) * 65536 + at(3 * g + 2) * 256 + at(3 * g + 3)
         IN  IF (p = 2 /\ 3 * g + 2 > n) \/ (p = 3 /\ 3 * g + 3 > n)
               THEN 64
               ELSE (t \div SextetWeight(p)) % 64]

\* base64.b64decode(data): the bytes a base64 string stands for.
b64decode(chars) ==
  LET m == Len(chars)
      pad == IF m = 0 THEN 0
             ELSE IF chars[m] # 64 THEN 0
             ELSE IF chars[m - 1] # 64 THEN 1 ELSE 2
      val(j) == IF chars[j] = 64 THEN 0 ELSE chars[j]
  IN  [i \in 1..(3 * (m \div 4) - pad) |->
         LET g == (i - 1) \div 3
             q == (i - 1) % 3
             t == val(4 * g + 1) * 262144 + val(4 * g + 2) * 4096
                  + val(4 * g + 3) * 64 + val(4 * g + 4)
         IN  (t \div OctetWeight(q)) % 256]

\* int(x) of a non-negative fraction: truncation.
int(x) == x[1] \div x[2]

\* int(math.sqrt(n)): the integer part of the square root.
isqrt(n) == CHOOSE r \in 0..n : r * r <= n /\ (r + 1) * (r + 1) > n


Min(a, b) == IF a < b THEN a ELSE b

\* --------------------------------------------------- the source images

\* What img.info holds for frame f (0-based) of a source, by the kind of
\* source: no "duration" at all, whole milliseconds (GIF; 0 for frame 0),
\* fractions of a millisecond (APNG), or a duration on every other frame.
FrameInfo(profile, f) ==
  CASE profile = "none" -> NoDuration
    [] profile = "whole" -> <<40 * f, 1>>
    [] profile = "fraction" -> <<100 * (f + 1), 3>>
    [] OTHER -> IF f % 2 = 0 THEN <<70, 1>> ELSE NoDuration

Profiles == {"none", "whole", "fraction", "mixed"}

\* What Image.open gives for a file or URL: readable or not, with the
\* attribute n_frames or without it, its frame count, its width and height,
\* its pixels (seed) and each frame's info.
Source(readable, has_n_frames, n, dims, seed, profile) ==
  [readable |-> readable, has_n_frames |-> has_n_frames, n_frames |-> n,
   w |-> dims[1], h |-> dims[2], seed |-> seed,
   info |-> [k \in 1..n |-> FrameInfo(profile, k - 1)]]

SmallDims == {<<1, 1>>, <<2, 3>>}

LargeDims == {<<16, 16>>, <<17, 16>>, <<20, 40>>, <<40, 64>>, <<64, 64>>, <<65, 64>>, <<64, 65>>}

\* A file that is no image, or a URL that cannot be fetched.
Unreadable == Source(FALSE, FALSE, 1, <<1, 1>>, 0, "none")

SmallSources ==
  {Source(TRUE, a, n, d, 7, p) :
     a \in BOOLEAN, n \in 1..MaxSrcFrames, d \in SmallDims, p \in Profiles}

LargeSources == {Source(TRUE, a, 1, d, 11, "whole") : a \in BOOLEAN, d \in LargeDims}

\* The number of frames a source has: one when it is not animated.
FrameCount(img) == IF img.has_n_frames THEN img.n_frames ELSE 1

\* img.seek(frame); img.convert(mode="RGB"): frame f (0-based) as an RGB image.
seek(img, f) == [w |-> img.w, h |-> img.h, seed |-> img.seed + f]

\* ------------------------------------------------------ _fileToFrames

\* totalFrames: 1 without n_frames, else n_frames capped at maxFrames.
totalFrames(img, maxFrames) ==
  IF ~img.has_n_frames THEN 1
  ELSE IF img.n_frames > maxFrames THEN maxFrames
  ELSE img.n_frames

\* A frame larger than size on a side is shrunk (thumbnail) and padded
\* (ImageOps.pad) to size x size, its pixels resampled; any other frame is
\* left as it is.
normalise(im, size, resampled) ==
  IF im.w > size \/ im.h > size
    THEN [w |-> size, h |-> size, seed |-> resampled]
    ELSE im

\* The duration with the default of another unit (1 s written as 1).
duration_seconds(info) == IF info # NoDuration THEN int(info) ELSE 1

\* duration: int(img.info["duration"]) when the frame has one, else 1000.
duration(info) == IF info # NoDuration THEN int(info) ELSE DefaultDuration

\* GIFData(totalFrames=totalFrames, size=imgrgb.size[0], offset=frame, id=id,
\*         speed=duration, data=b64.decode("utf-8"))
GIFData(total, imgrgb, f, id, speed, data) ==
  [totalFrames |-> total, size |-> imgrgb.w, offset |-> f, id |-> id,
   speed |-> speed, data |-> data]

\* The pixels of a frame as the packet carries them.
encode(imgrgb) == b64encode(flatten(getdata(imgrgb)))

\* _fileToFrames(filename, url, id, resample, size, maxFrames): the packets,
\* and (rgb) the frame each was made from.  resampled stands for what the
\* resampling of a shrunk frame yields.
_fileToFrames(filename, url, id, size, maxFrames, resampled) ==
  IF ~filename.readable
    THEN [raised |-> TRUE, frames |-> <<>>, rgb |-> <<>>]
    ELSE LET total == totalFrames(filename, maxFrames)
             imgrgb(f) == normalise(seek(filename, f), size, resampled + f)
         IN  [raised |-> FALSE,
              frames |-> [k \in 1..total |->
                            GIFData(total, imgrgb(k - 1), k - 1, id,
                                    duration(filename.info[k]), encode(imgrgb(k - 1)))],
              rgb |-> [k \in 1..total |-> imgrgb(k - 1)]]

\* No file handle was acquired.
NoHandle == [opened |-> FALSE, closed |-> FALSE]

\* Image.open(filename) opens the file of a local path and keeps it in img;
\* with url the image is read from the bytes of the response, in memory.  A
\* path that cannot be read as an image leaves no handle behind.
Acquires(filename, url) == filename.readable /\ ~url

\* _fileToFrames never closes img and opens it in no with statement: on
\* exit the handle is closed only if Pillow or the interpreter's finaliser
\* has closed it by then, which the code does not decide.
ImageHandles(filename, url) ==
  IF Acquires(filename, url)
    THEN {[opened |-> TRUE, closed |-> c] : c \in BOOLEAN}
    ELSE {NoHandle}

\* ---------------------------------------------------- _imageDataToGIF

\* The frame size taken from the bytes of a chunk, not from its pixels.
frameSizeOf_bytes(chunkSize) == isqrt(chunkSize)

\* frameSize = int(math.sqrt(chunkSize / 3))
frameSizeOf(chunkSize) == isqrt(chunkSize \div 3)

\* The triples of a chunk read with a stride of one byte too many.
pixelChunks_stride(chunk) ==
  [i \in 1..((Len(chunk) + 1) \div 3) |->
     <<chunk[Min(4 * i - 3, Len(chunk))], chunk[Min(4 * i - 2, Len(chunk))],
       chunk[Min(4 * i - 1, Len(chunk))]>>]

\* [chunk[i:i + 3] for i in range(0, len(chunk) - 1, 3)], each made a tuple
\* (pc[0], pc[1], pc[2]); the chunk's length is not 2 modulo 3.
pixelChunks(chunk) ==
  [i \in 1..((Len(chunk) + 1) \div 3) |->
     <<chunk[3 * i - 2], chunk[3 * i - 1], chunk[3 * i]>>]

\* Image.new("RGB", (frameSize, frameSize)); img.putdata(pixelData): the
\* pixels row by row, black where pixelData gave none.
putdata(frameSize, pixelData) ==
  [size |-> frameSize,
   pixels |-> [k \in 1..(frameSize * frameSize) |->
                 IF k <= Len(pixelData) THEN pixelData[k] ELSE <<0, 0, 0>>]]

\* What the loop body raises on a chunk: IndexError at pc[2] when the last
\* triple is short, TypeError from putdata when the image cannot hold the
\* pixels, "" when it raises nothing.
chunkError(chunk, frameSize) ==
  IF Len(chunk) % 3 = 2 THEN "IndexError"
  ELSE IF (Len(chunk) + 1) \div 3 > frameSize * frameSize THEN "TypeError"
  ELSE ""

\* _imageDataToGIF(data, outFile): the frames rebuilt from data["FileData"]
\* and what is handed to firstImage.save, or the exception raised.
_imageDataToGIF(data, outFile) ==
  LET len == Len(data.FileData)
      failed(e) == [raised |-> TRUE, error |-> e, images |-> <<>>, saved |-> None]
  IN  IF data.PicCount = 0 THEN failed("ZeroDivisionError")
      ELSE
        LET chunkSize == len \div data.PicCount
            frameSize == frameSizeOf(chunkSize)
        IN  IF chunkSize = 0 THEN failed("ValueError")
            ELSE
              LET nChunks == (len + chunkSize - 1) \div chunkSize
                  chunk(c) == SubSeq(data.FileData, (c - 1) * chunkSize + 1,
                                     Min(c * chunkSize, len))
                  bad == {c \in 1..nChunks : chunkError(chunk(c), frameSize) # ""}
                  images == [c \in 1..nChunks |-> putdata(frameSize, pixelChunks(chunk(c)))]
              IN  IF bad # {}
                    THEN failed(chunkError(chunk(CHOOSE c \in bad : \A d \in bad : c <= d),
                                           frameSize))
                    ELSE [raised |-> FALSE, error |-> "", images |-> images,
                          saved |-> [outFile |-> outFile,
                                     frames |-> <<images[1]>> \o images,
                                     duration |-> data.Speed, loop |-> 0]]

\* firstImage.save(outFile, format="GIF", append_images=images,
\* save_all=True, duration=..., loop=0): the file Pillow writes from the
\* frames handed over, firstImage and then every image of append_images.
\* Pillow's GIF writer either writes each of them, or folds a frame equal to
\* the one before it into that frame and adds its duration to it: which of
\* the two is up to the version installed.
GIF_save(saved, merge) ==
  LET fs == saved.frames
      n == Len(fs)
      K == IF merge THEN {i \in 1..n : i = 1 \/ fs[i] # fs[i - 1]} ELSE 1..n
      Kth(j) == CHOOSE k \in K : Cardinality({i \in K : i <= k}) = j
      after(k) == IF \E i \in K : i > k
                    THEN CHOOSE i \in K : i > k /\ \A h \in K : h > k => i <= h
                    ELSE n + 1
  IN  [outFile |-> saved.outFile,
       frames |-> [j \in 1..Cardinality(K) |->
                     [image |-> fs[Kth(j)],
                      duration |-> saved.duration * (after(Kth(j)) - Kth(j))]],
       loop |-> saved.loop]

\* What is on disk after a call of _imageDataToGIF that ended as gif did:
\* a call that raised, or was never made, writes nothing.
Written(gif, before) ==
  IF gif = None \/ gif.raised THEN {before}
  ELSE {GIF_save(gif.saved, merge) : merge \in BOOLEAN}

\* ----------------------------------------------------- _binFileToGIF

HexDigits == <<"0", "1", "2", "3", "4", "5", "6", "7", "8", "9", "a", "b", "c", "d", "e", "f">>

\* bytes.hex(): two lowercase digits a byte, "" for no byte.
hex(bytes) ==
  [i \in 1..(2 * Len(bytes)) |->
     LET b == bytes[(i + 1) \div 2]
     IN  IF i % 2 = 1 THEN HexDigits[(b \div 16) + 1] ELSE HexDigits[(b % 16) + 1]]

\* f.read(n) at position pos (0-based) of the file's bytes.
read(bytes, pos, n) == SubSeq(bytes, pos + 1, Min(pos + n, Len(bytes)))

\* The block size of AES.
BlockSize == 16

\* AES.new(key, AES.MODE_CBC, IV=iv): a key of 16, 24 or 32 bytes and an IV
\* of one block make a cipher, anything else raises ValueError.
AES_new_ok(key, iv) == key.len \in {16, 24, 32} /\ iv.len = BlockSize

\* The block decryption of the cipher, byte by byte: a stand-in for AES
\* that keeps its contract (a bijection on blocks that depends on the key).
BlockDecrypt(key, c) == (c + 256 - key.seed) % 256

\* A cipher that decrypts whatever it is given.
AES_decrypt_lenient(data) == FALSE

\* decrypt_cipher.decrypt(data) in CBC mode raises ValueError unless data is
\* a whole number of blocks.
AES_decrypt_raises(data) == Len(data) % BlockSize # 0

\* decrypt_cipher.decrypt(data) in CBC mode, for data of whole blocks: each
\* block decrypted, then combined with the block before it (the IV first).
AES_decrypt(key, iv, data) ==
  [i \in 1..Len(data) |->
     LET prev == IF i <= BlockSize THEN iv.seed ELSE data[i - BlockSize]
     IN  (BlockDecrypt(key, data[i]) + 256 - prev) % 256]

\* The sum of the run lengths of the first p pairs of a stream.
RECURSIVE RunTotal(_, _)
RunTotal(stream, p) == IF p = 0 THEN 0 ELSE RunTotal(stream, p - 1) + stream[2 * p - 1]

\* lzo.decompress(data, False, buflen): a stand-in for LZO that keeps its
\* contract.  The stream is pairs (run length, byte), a run of length 0
\* ends it; the output is the runs, of whatever length they have.  A stream
\* that never ends is malformed, an output longer than buflen overruns the
\* buffer: both raise lzo.error.
lzo_decompress(data, buflen) ==
  LET pairs == Len(data) \div 2
      ends == {p \in 1..pairs : data[2 * p - 1] = 0}
      last == IF ends = {} THEN 0 ELSE (CHOOSE p \in ends : \A q \in ends : p <= q) - 1
      total == RunTotal(data, last)
  IN  IF ends = {} \/ total > buflen
        THEN [raised |-> TRUE, out |-> <<>>]
        ELSE [raised |-> FALSE,
              out |-> [k \in 1..total |->
                         LET p == CHOOSE q \in 1..last :
                                    RunTotal(data, q - 1) < k /\ k <= RunTotal(data, q)
                         IN  data[2 * p]]]

\* The case patterns of the match on f.read(1).hex(), as written.
NotYetSupportedTypes ==
  {<<"1", "E">>, <<"0", "C">>, <<"1", "2">>, <<"O", "D">>, <<"1", "3">>, <<"0", "7">>,
   <<"0", "F">>, <<"1", "6">>, <<"1", "7">>, <<"1", "1">>, <<"0", "0">>, <<"1", "A">>}

\* A match whose last case lets the tag through.
dispatch_fallthrough(tag) ==
  CASE tag = <<"0", "8">> -> "08"
    [] tag = <<"0", "9">> -> "09"
    [] tag = <<"1", "1">> -> "11"
    [] tag \in {<<"1", "a">>, <<"0", "0">>} -> "not yet supported"
    [] tag \in NotYetSupportedTypes -> "not yet supported"
    [] OTHER -> "pass"

\* match f.read(1).hex(): the case taken, the first whose pattern equals
\* the tag.
dispatch(tag) ==
  CASE tag = <<"0", "8">> -> "08"
    [] tag = <<"0", "9">> -> "09"
    [] tag = <<"1", "1">> -> "11"
    [] tag \in {<<"1", "E">>, <<"0", "C">>} -> "pass"
    [] tag \in {<<"1", "a">>, <<"0", "0">>} -> "not yet supported"
    [] tag \in NotYetSupportedTypes -> "not yet supported"
    [] OTHER -> "unknown"

EmptyFileData == [Width |-> 0, Height |-> 0, PicCount |-> 0, Speed |-> 0, FileData |-> <<>>]

\* _binFileToGIF(file, key, iv, outFile): the exception raised or the
\* fileData decoded and what _imageDataToGIF made of it.  The file is
\* opened in a with statement: it is closed however the call ends.
_binFileToGIF(file, key, iv, outFile) ==
  LET failed(e, fd) == [raised |-> TRUE, error |-> e, opened |-> file.exists,
                        closed |-> file.exists, fileData |-> fd, gif |-> None]
      bytes == file.bytes
      case == dispatch(hex(read(bytes, 0, 1)))
      decode(fd) ==
        LET gif == _imageDataToGIF(fd, outFile)
        IN  [raised |-> gif.raised, error |-> gif.error, opened |-> TRUE,
             closed |-> TRUE, fileData |-> fd, gif |-> gif]
      decrypted(pos, fd) ==
        LET data == read(bytes, pos, Len(bytes))
        IN  IF AES_decrypt_raises(data)
              THEN failed("ValueError", fd)
              ELSE decode([fd EXCEPT !.FileData = AES_decrypt(key, iv, data)])
  IN  IF ~file.exists THEN failed("FileNotFoundError", None)
      ELSE IF ~AES_new_ok(key, iv) THEN failed("ValueError", EmptyFileData)
      ELSE
        CASE case = "08" ->
               decrypted(1, [EmptyFileData EXCEPT !.Width = 16, !.Height = 16,
                                                  !.PicCount = 1, !.Speed = 1])
          [] case = "09" ->
               IF Len(bytes) < 2 THEN failed("ValueError", EmptyFileData)
               ELSE IF Len(bytes) < 4 THEN failed("IndexError", EmptyFileData)
               ELSE decrypted(4, [EmptyFileData EXCEPT
                                    !.Width = 16, !.Height = 16, !.PicCount = bytes[2],
                                    !.Speed = bytes[4] + 256 * bytes[3]])
          [] case = "11" ->
               IF Len(bytes) < 7 THEN failed("struct.error", EmptyFileData)
               ELSE
                 LET width == bytes[2]
                     height == bytes[3]
                     fd == [EmptyFileData EXCEPT !.Width = width * 16,
                                                 !.Height = height * 16, !.PicCount = 1]
                     data == read(bytes, 7, Len(bytes))
                 IN  IF AES_decrypt_raises(data) THEN failed("ValueError", fd)
                     ELSE
                       LET plain == AES_decrypt(key, iv, data)
                           lzo == lzo_decompress(plain, (width * 16) * (height * 16) * 3)
                       IN  IF lzo.raised
                             THEN failed("lzo.error", [fd EXCEPT !.FileData = plain])
                             ELSE decode([fd EXCEPT !.FileData = lzo.out])
          [] case = "pass" -> decode(EmptyFileData)
          [] case = "not yet supported" ->
               failed("Filetype not yet supported", EmptyFileData)
          [] OTHER -> failed("Unknown File Type", EmptyFileData)

\* ------------------------------------------------- the Command Transport

\* The device set with setDevice: None until then.
Pixoo == [class |-> "DivoomDevice", DevicePrivateIP |-> "192.168.1.64", DeviceId |-> 300000001]

\* What the device answers to a request: a dict, or nothing (the request fails).
ConnectionError == [class |-> "ConnectionError"]

Replies == {[error_code |-> 0], [error_code |-> 1], ConnectionError}

\* _checkForDevice(): isinstance(device, DivoomDevice)
_checkForDevice(dev) == dev.class = "DivoomDevice"

\* A check that looks at ReturnCode only.
_checkForErrors_ReturnCode(response) ==
  IF "ReturnCode" \in DOMAIN response /\ response.ReturnCode # 0
    THEN [class |-> "dict", message |-> "n/a", code |-> response.ReturnCode]
    ELSE None

\* _checkForErrors(response): the error found, or None.
_checkForErrors(response) ==
  LET byReturnCode == "ReturnCode" \in DOMAIN response /\ response.ReturnCode # 0
      byErrorCode == "error_code" \in DOMAIN response /\ response.error_code # 0
  IN  IF byReturnCode /\ "ReturnMessage" \notin DOMAIN response
        THEN [class |-> "KeyError"]
      ELSE IF byErrorCode
        THEN [class |-> "dict", message |-> "n/a", code |-> response.error_code]
      ELSE IF byReturnCode
        THEN [class |-> "dict", message |-> response.ReturnMessage,
              code |-> response.ReturnCode]
      ELSE None

\* callPixooAPI(data, hostname, endpoint, https), with `dev` the global device,
\* `dbg` the global debug and `reply` the device's answer: the request made
\* (at most one), and the response returned or the exception raised.
callPixooAPI(dev, dbg, data, hostname, endpoint, https, reply) ==
  LET host == IF hostname = None THEN dev.DevicePrivateIP ELSE hostname.value
      url == [scheme |-> IF https THEN "https" ELSE "http", netloc |-> host,
              path |-> endpoint]
      call == [data |-> data, hostname |-> hostname, endpoint |-> endpoint, https |-> https]
      raise(e, reqs) == [raised |-> TRUE, error |-> e, requests |-> reqs, value |-> None,
                         api |-> <<call>>]
      req == [url |-> url, json |-> data]
  IN  IF hostname = None /\ "DevicePrivateIP" \notin DOMAIN dev
        THEN raise("TypeError", <<>>)
      ELSE IF url.netloc = "" THEN raise("URL is not valid!", <<>>)
      ELSE IF dbg THEN raise("UnboundLocalError", <<>>)
      ELSE IF reply = ConnectionError THEN raise("ConnectionError", <<req>>)
      ELSE IF DOMAIN reply = {}
        THEN [raised |-> FALSE, error |-> "", requests |-> <<req>>, value |-> reply,
              api |-> <<call>>]
      ELSE LET error == _checkForErrors(reply)
           IN  IF error = None
                 THEN [raised |-> FALSE, error |-> "", requests |-> <<req>>, value |-> reply,
                       api |-> <<call>>]
               ELSE IF error.class = "KeyError" THEN raise("KeyError", <<req>>)
               ELSE raise("Error code returned from API", <<req>>)

\* A sendCommand that sends the command whatever batch is.
sendCommand_sends(dev, dbg, command, parameters, batch, reply) ==
  IF ~_checkForDevice(dev)
    THEN [raised |-> TRUE, error |-> "No device has been set up", requests |-> <<>>,
          value |-> None, api |-> <<>>]
    ELSE callPixooAPI(dev, dbg, parameters @@ [Command |-> command], None, "post", FALSE,
                      reply)

\* sendCommand(command, parameters, batch): what it returns or raises, and
\* the request it makes.
sendCommand(dev, dbg, command, parameters, batch, reply) ==
  IF ~_checkForDevice(dev)
    THEN [raised |-> TRUE, error |-> "No device has been set up", requests |-> <<>>,
          value |-> None, api |-> <<>>]
    ELSE LET data == parameters @@ [Command |-> command]
         IN  IF batch
               THEN [raised |-> FALSE, error |-> "", requests |-> <<>>, value |-> data,
                     api |-> <<>>]
               ELSE callPixooAPI(dev, dbg, data, None, "post", FALSE, reply)

\* _isLoggedIn(): isinstance(user, DivoomUser)
_isLoggedIn(usr) == usr.class = "DivoomUser"

\* The host of Divoom's online API.
OnlineHost == [class |-> "str", value |-> "appin.divoom-gz.com"]

\* A sendOnlineCommand that asks for no session.
sendOnlineCommand_open(dev, usr, dbg, command, parameters, requireLogin, requireDevice, reply) ==
  callPixooAPI(dev, dbg, parameters, OnlineHost, command, TRUE, reply)

\* sendOnlineCommand(command, parameters, requireLogin, requireDevice), with
\* `usr` the global user: what it returns or raises, and the request it
\* makes.  Reading device["DeviceId"] of a device that is None, or a key of
\* a user that is None, raises TypeError.
sendOnlineCommand(dev, usr, dbg, command, parameters, requireLogin, requireDevice, reply) ==
  LET raise(e) == [raised |-> TRUE, error |-> e, requests |-> <<>>, value |-> None,
                   api |-> <<>>]
      login == IF requireLogin
                 THEN [DeviceId |-> dev.DeviceId, Token |-> usr.Token, UserId |-> usr.UserId]
                 ELSE <<>>
      owner == IF requireDevice THEN [Token |-> usr.Token, UserId |-> usr.UserId] ELSE <<>>
  IN  IF requireLogin /\ ~_isLoggedIn(usr)
        THEN raise("Command requies you to be logged in")
      ELSE IF requireLogin /\ ~_checkForDevice(dev) THEN raise("TypeError")
      ELSE IF requireDevice /\ ~_checkForDevice(dev)
        THEN raise("Command requies a device to be set")
      ELSE IF requireDevice /\ ~_isLoggedIn(usr) THEN raise("TypeError")
      ELSE callPixooAPI(dev, dbg, parameters @@ owner @@ login, OnlineHost, command,
                        TRUE, reply)

\* ---------------------------------------------------- downloadOnlineGIF

\* A check for empty file data that never finds any.
NoFileData_never(data) == FALSE

\* len(data["FileData"]) == 0
NoFileData(data) == Len(data.FileData) = 0

\* downloadOnlineGIF(fileId, outFile) from the data sendOnlineCommand
\* returned on: the exception raised, or what _imageDataToGIF made.  A key
\* the data lacks raises KeyError where it is read: "FileData", then
\* "FileName" when outFile is None, then "Filename", then, in
\* _imageDataToGIF, "PicCount" and, at the save, "Speed".
downloadOnlineGIF(data, outFile) ==
  LET raise(e, gif) == [raised |-> TRUE, error |-> e, gif |-> gif]
      has(key) == key \in DOMAIN data
  IN  IF ~has("FileData") THEN raise("KeyError", None)
      ELSE IF NoFileData(data)
        THEN raise("No file data! Image may be set to private", None)
      ELSE IF outFile = None /\ ~has("FileName") THEN raise("KeyError", None)
      ELSE IF ~has("Filename") THEN raise("KeyError", None)
      ELSE IF ~has("PicCount")
        THEN raise("KeyError", [raised |-> TRUE, error |-> "KeyError", images |-> <<>>,
                                saved |-> None])
      ELSE LET gif == _imageDataToGIF([FileData |-> data.FileData,
                                       PicCount |-> data.PicCount,
                                       Speed |-> IF has("Speed") THEN data.Speed ELSE 0],
                                      data.Filename)
           IN  IF ~gif.raised /\ ~has("Speed")
                 THEN raise("KeyError", [gif EXCEPT !.raised = TRUE, !.error = "KeyError",
                                                    !.saved = None])
                 ELSE [raised |-> gif.raised, error |-> gif.error, gif |-> gif]

\* ------------------------------------------ the session and the wrappers

\* What a function did: the exception it raised or the value it returned,
\* the requests it made, and the calls of callPixooAPI and of sendCommand
\* (command and parameters) it made, in order.
Outcome(raised, error, value, requests, apicalls, cmdcalls) ==
  [raised |-> raised, error |-> error, value |-> value, requests |-> requests,
   api |-> apicalls, calls |-> cmdcalls]

\* The function raised what the call `out` it made raised.
Raised(out, cmdcalls) == Outcome(TRUE, out.error, None, out.requests, out.api, cmdcalls)

\* DivoomUser(Token=..., UserId=...)
DivoomUser(token, userId) == [class |-> "DivoomUser", Token |-> token, UserId |-> userId]

\* DivoomDevice(DevicePrivateIP=..., DeviceMac=..., DeviceId=..., DeviceName=...)
DivoomDevice(d) ==
  [class |-> "DivoomDevice", DevicePrivateIP |-> d.DevicePrivateIP, DeviceMac |-> d.DeviceMac,
   DeviceId |-> d.DeviceId, DeviceName |-> d.DeviceName]

\* hashlib.md5(bytes(password, "utf-8")).hexdigest()
md5(password) == [class |-> "str", md5 |-> password]

\* findDevices(): response["DeviceList"] of Device/ReturnSameLANDevice.
findDevices(dev, usr, dbg, reply) ==
  LET out == sendOnlineCommand(dev, usr, dbg, "Device/ReturnSameLANDevice", <<>>,
                               FALSE, FALSE, reply)
  IN  IF out.raised THEN Raised(out, <<>>)
      ELSE IF "DeviceList" \notin DOMAIN out.value
        THEN Outcome(TRUE, "KeyError", None, out.requests, out.api, <<>>)
      ELSE Outcome(FALSE, "", out.value.DeviceList, out.requests, out.api, <<>>)

\* setDevice(deviceDetails), with `dev` the global device: the outcome and
\* the global device it leaves.  The first test is on the global device,
\* not on deviceDetails; in its branch, whatever the search found,
\* devices[0] is taken when there is one.
setDevice(dev, usr, dbg, deviceDetails, reply) ==
  LET set(d) == Outcome(FALSE, "", d, <<>>, <<>>, <<>>) @@ [device |-> d]
  IN  IF dev.class = "str"
        THEN LET found == findDevices(dev, usr, dbg, reply)
             IN  IF found.raised THEN found @@ [device |-> dev]
                 ELSE IF Len(found.value) > 0
                   THEN [found EXCEPT !.value = found.value[1]]
                          @@ [device |-> found.value[1]]
                 ELSE Outcome(TRUE, "No devices found!", None, found.requests, found.api,
                              <<>>) @@ [device |-> dev]
      ELSE IF deviceDetails.class = "DivoomDevice" THEN set(deviceDetails)
      ELSE IF deviceDetails.class = "dict"
        THEN IF {"DevicePrivateIP", "DeviceMac", "DeviceId", "DeviceName"}
                  \subseteq DOMAIN deviceDetails
               THEN set(DivoomDevice(deviceDetails))
               ELSE Outcome(TRUE, "KeyError", None, <<>>, <<>>, <<>>) @@ [device |-> dev]
      ELSE set(dev)

\* divoomLogin(email, password, alreadyHashed): the outcome and the global
\* user it leaves.
divoomLogin(dev, usr, dbg, email, password, alreadyHashed, reply) ==
  LET hashed == IF alreadyHashed THEN password ELSE md5(password)
      out == sendOnlineCommand(dev, usr, dbg, "UserLogin",
                               [Email |-> email, Password |-> hashed], FALSE, FALSE, reply)
  IN  IF out.raised THEN Raised(out, <<>>) @@ [user |-> usr]
      ELSE IF ~({"Token", "UserId"} \subseteq DOMAIN out.value)
        THEN Outcome(TRUE, "KeyError", None, out.requests, out.api, <<>>) @@ [user |-> usr]
      ELSE LET u == DivoomUser(out.value.Token, out.value.UserId)
           IN  Outcome(FALSE, "", u, out.requests, out.api, <<>>) @@ [user |-> u]

\* divoomLogout(userID, token): the outcome and the global user it leaves.
\* The function has no global statement: user = None binds a local name.
divoomLogout(dev, usr, dbg, userID, token, reply) ==
  LET out == sendOnlineCommand(dev, usr, dbg, "UserLogout", <<>>, TRUE, FALSE, reply)
  IN  IF out.raised THEN Raised(out, <<>>) @@ [user |-> usr]
      ELSE Outcome(FALSE, "", TRUE, out.requests, out.api, <<>>) @@ [user |-> usr]

\* sendBatchCommands(parameters, port, wait): it calls sendCommand with the
\* keywords port and wait, which sendCommand does not take: TypeError.
sendBatchCommands(dev, dbg, parameters, port, wait, reply) ==
  Outcome(TRUE, "TypeError", None, <<>>, <<>>, <<>>)

\* setStopwatch(start, reset)
setStopwatch(dev, dbg, start, reset, reply) ==
  LET Status(n) == [Status |-> n]
      k1 == [command |-> "Tools/SetStopWatch", parameters |-> Status(2)]
      k2 == [command |-> "Tools/SetStopWatch", parameters |-> Status(IF start THEN 1 ELSE 0)]
      c1 == sendCommand(dev, dbg, k1.command, k1.parameters, TRUE, reply)
      c2 == sendCommand(dev, dbg, k2.command, k2.parameters, TRUE, reply)
      before == IF reset THEN <<k1>> ELSE <<>>
      commands == (IF reset THEN <<c1.value>> ELSE <<>>) \o <<c2.value>>
      batch == sendBatchCommands(dev, dbg, commands, 80, FALSE, reply)
  IN  IF reset /\ c1.raised THEN Raised(c1, <<k1>>)
      ELSE IF c2.raised THEN Raised(c2, before \o <<k2>>)
      ELSE IF batch.raised THEN Raised(batch, before \o <<k2>>)
      ELSE Outcome(FALSE, "", TRUE, batch.requests, batch.api, before \o <<k2>>)

\* getSettings(): the answer to Channel/GetAllConf without its error_code.
getSettings(dev, dbg, reply) ==
  LET k == [command |-> "Channel/GetAllConf", parameters |-> <<>>]
      out == sendCommand(dev, dbg, k.command, k.parameters, FALSE, reply)
  IN  IF out.raised THEN Raised(out, <<k>>)
      ELSE IF "error_code" \notin DOMAIN out.value
        THEN Outcome(TRUE, "KeyError", None, out.requests, out.api, <<k>>)
      ELSE Outcome(FALSE, "",
                   [key \in DOMAIN out.value \ {"error_code"} |-> out.value[key]],
                   out.requests, out.api, <<k>>)

\* getBrightness(): int(response["Brightness"])
getBrightness(dev, dbg, reply) ==
  LET out == getSettings(dev, dbg, reply)
  IN  IF out.raised THEN out
      ELSE IF "Brightness" \notin DOMAIN out.value
        THEN [out EXCEPT !.raised = TRUE, !.error = "KeyError", !.value = None]
      ELSE [out EXCEPT !.value = out.value.Brightness]

\* setBrightness(brightness): the set command and, when it did not raise,
\* the brightness read back.
setBrightness(dev, dbg, brightness, reply, reread) ==
  LET k == [command |-> "Channel/SetBrightness", parameters |-> [Brightness |-> brightness]]
      out == sendCommand(dev, dbg, k.command, k.parameters, FALSE, reply)
      back == getBrightness(dev, dbg, reread)
  IN  IF out.raised THEN Raised(out, <<k>>)
      ELSE [back EXCEPT !.requests = out.requests \o back.requests,
                        !.api = out.api \o back.api,
                        !.calls = <<k>> \o back.calls]

\* divmod(minutes, 60) made a datetime.time, which takes hours up to 23.
time(minutes) == [class |-> "time", hour |-> minutes \div 60, minute |-> minutes % 60]

\* getNightMode()
getNightMode(dev, usr, dbg, reply) ==
  LET out == sendOnlineCommand(dev, usr, dbg, "Channel/GetNightView", <<>>, TRUE, TRUE, reply)
      fail(e) == Outcome(TRUE, e, None, out.requests, out.api, <<>>)
  IN  IF out.raised THEN Raised(out, <<>>)
      ELSE IF ~({"StartTime", "EndTime"} \subseteq DOMAIN out.value) THEN fail("KeyError")
      ELSE IF out.value.StartTime \div 60 > 23 \/ out.value.EndTime \div 60 > 23
        THEN fail("ValueError")
      ELSE IF ~({"OnOff", "Brightness"} \subseteq DOMAIN out.value) THEN fail("KeyError")
      ELSE Outcome(FALSE, "",
                   [start |-> time(out.value.StartTime), end |-> time(out.value.EndTime),
                    state |-> out.value.OnOff # 0, brightness |-> out.value.Brightness],
                   out.requests, out.api, <<>>)

\* setNightMode(state, start, end, brightness).  startTime and endTime are
\* bound only for a start and an end that are datetime.time: reading them
\* for the parameters raises UnboundLocalError otherwise.
setNightMode(dev, usr, dbg, state, start, end, brightness, reply, reread) ==
  LET fail(e) == Outcome(TRUE, e, None, <<>>, <<>>, <<>>)
      onoff == IF start = end THEN 0 ELSE IF state THEN 1 ELSE 0
      minutes(t) == t.hour * 60 + t.minute
      out == sendOnlineCommand(dev, usr, dbg, "Channel/SetNightView",
                               [StartTime |-> minutes(start), EndTime |-> minutes(end),
                                OnOff |-> onoff, Brightness |-> brightness],
                               TRUE, TRUE, reply)
      back == getNightMode(dev, usr, dbg, reread)
  IN  IF start.class = "int" /\ start.value > 1440
        THEN fail("Start time is greater than 1440 minutes!")
      ELSE IF end.class = "int" /\ end.value > 1440
        THEN fail("End time is greater than 1440 minutes!")
      ELSE IF start.class # "time" \/ end.class # "time" THEN fail("UnboundLocalError")
      ELSE IF out.raised THEN Raised(out, <<>>)
      ELSE [back EXCEPT !.requests = out.requests \o back.requests,
                        !.api = out.api \o back.api]

\* ------------------------------------------------------------- sendGIF

\* The parameters with the sequence id and the frame index exchanged.
GIFDataParameters_swapped(p) ==
  [PicNum |-> p.totalFrames, PicWidth |-> p.size, PicOffset |-> p.id,
   PicID |-> p.offset, PicSpeed |-> p.speed, PicData |-> p.data]

\* The parameters of Draw/SendHttpGif for a GIFData (case GIFType.DATA.value).
GIFDataParameters(p) ==
  [PicNum |-> p.totalFrames, PicWidth |-> p.size, PicOffset |-> p.offset,
   PicID |-> p.id, PicSpeed |-> p.speed, PicData |-> p.data]

\* resetGIFID() asking for the id instead of resetting it.
resetGIFID_command_get == "Draw/GetHttpGifId"

\* The command resetGIFID() sends.
resetGIFID_command == "Draw/ResetHttpGifId"

\* The id with every source given the id 0.
sourceId_zero(file) == 0

\* id=file: the id _fileToFrames is given for the source at index file.
sourceId(file) == file

\* ------------------------------------------------------------ the state

VARIABLES
  pc,       \* where the call under way stands
  args,     \* the arguments of the call under way
  device,   \* the global device
  user,     \* the global user
  debug,    \* the global debug
  filename, \* sendGIF's filename once wrapped in a list
  file,     \* sendGIF's index into filename
  frame,    \* sendGIF's index into frames
  frames,   \* the packets _fileToFrames returned
  rgb,      \* the frame each of them was made from
  images,   \* what _imageDataToGIF made of the data handed to it
  fileData, \* _binFileToGIF's fileData
  calls,    \* the calls of sendCommand so far: command and parameters
  wire,     \* the requests made to the device so far
  api,      \* the calls of callPixooAPI so far
  handles,  \* the file handle the call acquired, and whether it is released
  disk,     \* the GIF file written, if any
  result    \* what the call returned, or the exception it raised

vars == <<pc, args, device, user, debug, filename, file, frame, frames, rgb, images,
          fileData, calls, wire, api, handles, disk, result>>

\* ------------------------------------------- SpecEnc: the Frame Encoder

\* The calls of _fileToFrames tried: every small source with every size,
\* cap and id, and the large sources with the default cap.
EncInputs ==
  {[filename |-> s, url |-> u, id |-> i, size |-> z, maxFrames |-> m] :
     s \in SmallSources \cup {Unreadable}, u \in {FALSE}, i \in {0, 1},
     z \in GIFSizes, m \in (0..MaxCap) \cup {DefaultMaxFrames}}
  \cup
  {[filename |-> s, url |-> u, id |-> i, size |-> z, maxFrames |-> m] :
     s \in LargeSources, u \in {TRUE}, i \in {2},
     z \in GIFSizes, m \in {DefaultMaxFrames}}

\* The seeds of the pixels a resampling may yield.
Resampled == {100}

InitEnc ==
  /\ pc = "call"
  /\ args \in EncInputs
  /\ device = None
  /\ debug = FALSE
  /\ filename = <<>>
  /\ file = 0
  /\ frame = 0
  /\ frames = <<>>
  /\ rgb = <<>>
  /\ images = None
  /\ fileData = None
  /\ calls = <<>>
  /\ wire = <<>>
  /\ api = <<>>
  /\ user = None
  /\ handles = NoHandle
  /\ disk = None
  /\ result = None

\* frames = _fileToFrames(...)
Enc_fileToFrames ==
  /\ pc = "call"
  /\ \E r \in Resampled :
       LET out == _fileToFrames(args.filename, args.url, args.id, args.size,
                                args.maxFrames, r)
       IN  /\ pc' = IF out.raised THEN "raised" ELSE "returned"
           /\ frames' = out.frames
           /\ rgb' = out.rgb
           /\ result' = IF out.raised THEN [raised |-> "OSError"]
                        ELSE [returned |-> "frames"]
  /\ handles' \in ImageHandles(args.filename, args.url)
  /\ UNCHANGED <<args, device, debug, filename, file, frame, images, fileData, calls, wire,
                 disk, user, api>>

\* The payload of packet k, base64-decoded, through _imageDataToGIF as one frame.
Enc_imageDataToGIF ==
  /\ pc = "returned"
  /\ \E k \in 1..Len(frames) :
       LET gif == _imageDataToGIF([FileData |-> b64decode(frames[k].data),
                                   PicCount |-> 1, Speed |-> frames[k].speed],
                                  "image.gif")
       IN  /\ images' = [of |-> k] @@ gif
           /\ disk' \in Written(gif, disk)
  /\ pc' = "rebuilt"
  /\ UNCHANGED <<args, device, debug, filename, file, frame, frames, rgb, fileData,
                 calls, wire, handles, result, user, api>>

NextEnc == Enc_fileToFrames \/ Enc_imageDataToGIF

SpecEnc == InitEnc /\ [][NextEnc]_vars

\* --------------------------------------------------- SpecGif: sendGIF

SeqsUpTo(S, n) == UNION {[1..k -> S] : k \in 0..n}

\* The sources handed to sendGIF: a still, two animations, a file that is
\* no image.
GifSources ==
  {Source(TRUE, FALSE, 1, <<1, 1>>, 7, "none"),
   Source(TRUE, TRUE, 2, <<2, 3>>, 9, "whole"),
   Source(TRUE, TRUE, MaxSrcFrames, <<1, 1>>, 5, "mixed"),
   Unreadable}

\* The GIFData handed to sendGIF with GIFType.DATA.
GifPackets ==
  {[totalFrames |-> 7, size |-> 16, offset |-> 4, id |-> 9, speed |-> 50,
    data |-> <<0, 16, 32, 63>>],
   [totalFrames |-> 1, size |-> 64, offset |-> 0, id |-> 0, speed |-> 1000,
    data |-> <<>>]}

\* The calls of sendGIF tried.  A filename is a str (one source, or a name
\* on the SD card), a list of sources, or a GIFData.
GifInputs ==
  {[type |-> t, filename |-> [class |-> "str", path |-> s]] :
     t \in {GIFType.LOCALFILE, GIFType.URLDATA}, s \in GifSources}
  \cup
  {[type |-> t, filename |-> [class |-> "list", items |-> l]] :
     t \in {GIFType.LOCALFILE, GIFType.URLDATA}, l \in SeqsUpTo(GifSources, MaxSources)}
  \cup
  {[type |-> GIFType.DATA, filename |-> [class |-> "GIFData", packet |-> p]] :
     p \in GifPackets}
  \cup
  {[type |-> t, filename |-> [class |-> "str", name |-> "divoom_gif/1.gif"]] :
     t \in {GIFType.SDFILE, GIFType.SDFOLDER, GIFType.URL, 6}}

InitGif ==
  /\ pc = "call"
  /\ args \in GifInputs
  /\ device \in {None, Pixoo}
  /\ debug \in BOOLEAN
  /\ filename = <<>>
  /\ file = 0
  /\ frame = 0
  /\ frames = <<>>
  /\ rgb = <<>>
  /\ images = None
  /\ fileData = None
  /\ calls = <<>>
  /\ wire = <<>>
  /\ api = <<>>
  /\ user = None
  /\ handles = NoHandle
  /\ disk = None
  /\ result = None

\* A call of sendCommand(command, parameters) and what it leaves in the logs.
Sent(command, parameters, out) ==
  /\ calls' = Append(calls, [command |-> command, parameters |-> parameters])
  /\ wire' = wire \o out.requests
  /\ api' = api \o out.api

\* case GIFType.DATA.value: return sendCommand("Draw/SendHttpGif", {...})
sendGIF_DATA ==
  /\ pc = "call"
  /\ args.type = GIFType.DATA
  /\ \E reply \in Replies :
       LET parameters == GIFDataParameters(args.filename.packet)
           out == sendCommand(device, debug, "Draw/SendHttpGif", parameters, FALSE, reply)
       IN  /\ Sent("Draw/SendHttpGif", parameters, out)
           /\ pc' = IF out.raised THEN "raised" ELSE "returned"
           /\ result' = IF out.raised THEN [raised |-> out.error]
                        ELSE [returned |-> out.value]
  /\ UNCHANGED <<args, device, debug, filename, file, frame, frames, rgb, images, fileData,
                 handles, disk, user>>

\* case LOCALFILE | URLDATA: resetGIFID(), then filename wrapped in a list
\* when it is a str.
sendGIF_resetGIFID ==
  /\ pc = "call"
  /\ args.type \in {GIFType.LOCALFILE, GIFType.URLDATA}
  /\ \E reply \in Replies :
       LET out == sendCommand(device, debug, resetGIFID_command, <<>>, FALSE, reply)
       IN  /\ Sent(resetGIFID_command, <<>>, out)
           /\ pc' = IF out.raised THEN "raised" ELSE "file"
           /\ result' = IF out.raised THEN [raised |-> out.error] ELSE result
           /\ filename' = IF out.raised THEN filename
                          ELSE IF args.filename.class = "str" THEN <<args.filename.path>>
                          ELSE args.filename.items
  /\ file' = 0
  /\ UNCHANGED <<args, device, debug, frame, frames, rgb, images, fileData, handles,
                 disk, user>>

\* for file in range(0, len(filename)): frames = _fileToFrames(filename[file],
\* id=file, url=...); after the last file, return True.
sendGIF_fileToFrames ==
  /\ pc = "file"
  /\ IF file < Len(filename)
       THEN \E r \in Resampled :
              LET out == _fileToFrames(filename[file + 1], args.type = GIFType.URLDATA,
                                       sourceId(file), DefaultSize, DefaultMaxFrames, r)
              IN  /\ pc' = IF out.raised THEN "raised" ELSE "frame"
                  /\ result' = IF out.raised THEN [raised |-> "OSError"] ELSE result
                  /\ frames' = IF out.raised THEN frames ELSE out.frames
                  /\ rgb' = IF out.raised THEN rgb ELSE out.rgb
                  /\ frame' = IF out.raised THEN frame ELSE 0
                  /\ handles' \in ImageHandles(filename[file + 1],
                                               args.type = GIFType.URLDATA)
       ELSE /\ pc' = "returned"
            /\ result' = [returned |-> TRUE]
            /\ UNCHANGED <<frames, rgb, frame, handles>>
  /\ UNCHANGED <<args, device, debug, filename, file, images, fileData, calls, wire, disk,
                 user, api>>

\* for frame in range(0, len(frames)): sendGIF(type=GIFType.DATA.value,
\* filename=frames[frame]); after the last frame, the next file.
sendGIF_frame ==
  /\ pc = "frame"
  /\ IF frame < Len(frames)
       THEN \E reply \in Replies :
              LET parameters == GIFDataParameters(frames[frame + 1])
                  out == sendCommand(device, debug, "Draw/SendHttpGif", parameters,
                                     FALSE, reply)
              IN  /\ Sent("Draw/SendHttpGif", parameters, out)
                  /\ pc' = IF out.raised THEN "raised" ELSE "frame"
                  /\ result' = IF out.raised THEN [raised |-> out.error] ELSE result
                  /\ frame' = IF out.raised THEN frame ELSE frame + 1
                  /\ file' = file
       ELSE /\ file' = file + 1
            /\ pc' = "file"
            /\ UNCHANGED <<frame, result, calls, wire, api>>
  /\ UNCHANGED <<args, device, debug, filename, frames, rgb, images, fileData, handles,
                 disk, user>>

\* case SDFILE | SDFOLDER | URL: sendCommand("Device/PlayTFGif", {...}); return True
sendGIF_PlayTFGif ==
  /\ pc = "call"
  /\ args.type \in {GIFType.SDFILE, GIFType.SDFOLDER, GIFType.URL}
  /\ \E reply \in Replies :
       LET parameters == [FileName |-> args.filename.name, FileType |-> args.type]
           out == sendCommand(device, debug, "Device/PlayTFGif", parameters, FALSE, reply)
       IN  /\ Sent("Device/PlayTFGif", parameters, out)
           /\ pc' = IF out.raised THEN "raised" ELSE "returned"
           /\ result' = IF out.raised THEN [raised |-> out.error]
                        ELSE [returned |-> TRUE]
  /\ UNCHANGED <<args, device, debug, filename, file, frame, frames, rgb, images, fileData,
                 handles, disk, user>>

\* A type that matches no case: return True.
sendGIF_nocase ==
  /\ pc = "call"
  /\ args.type \notin {GIFType.SDFILE, GIFType.SDFOLDER, GIFType.URL, GIFType.DATA,
                       GIFType.LOCALFILE, GIFType.URLDATA}
  /\ pc' = "returned"
  /\ result' = [returned |-> TRUE]
  /\ UNCHANGED <<args, device, debug, filename, file, frame, frames, rgb, images,
                 fileData, calls, wire, handles, disk, user, api>>

NextGif ==
  \/ sendGIF_DATA
  \/ sendGIF_resetGIFID
  \/ sendGIF_fileToFrames
  \/ sendGIF_frame
  \/ sendGIF_PlayTFGif
  \/ sendGIF_nocase

SpecGif == InitGif /\ [][NextGif]_vars

\* --------------------------------------------- SpecBin: _binFileToGIF

\* The key and IV handed in: of the right length, or not.
Keys == {[len |-> 16, seed |-> 3], [len |-> 5, seed |-> 3]}

IVs == {[len |-> 16, seed |-> 9]}

\* The leading bytes tried: every tag the match names, in either spelling,
\* and tags it does not name.
Tags == {8, 9, 17, 30, 12, 26, 0, 18, 13, 19, 7, 15, 22, 23, 10, 255}

\* The lengths of what follows the tag.
BodyLengths == {0, 6, 15, 16, 32, 768}

\* The byte at position i (1-based) of the body with this seed.
BodyByte(seed, i) == (seed + 37 * i + (i \div 16)) % 256

\* One block of ciphertext that this key and IV decrypt to plain.
OneBlock(key, iv, plain) ==
  [i \in 1..BlockSize |-> (plain[i] + key.seed + iv.seed) % 256]

\* The compressed stream, one block long, of these runs.
RunStream(runs) ==
  [i \in 1..BlockSize |->
     IF i % 2 = 0 THEN (7 * i) % 256
     ELSE IF (i + 1) \div 2 <= Len(runs) THEN runs[(i + 1) \div 2] ELSE 0]

\* The runs tried: 768, 432, 510, 1020 and 1536 bytes, and a stream with
\* no end.
RunLists ==
  {<<255, 255, 255, 3>>, <<255, 177>>, <<255, 255>>, <<255, 255, 255, 255>>,
   <<255, 255, 255, 255, 255, 255, 6>>, <<1, 1, 1, 1, 1, 1, 1, 1>>}

\* Files of type 0x11: width and height in units of 16, a data length, and
\* a compressed stream encrypted with a key and IV the cipher accepts.
Static11Files ==
  {[exists |-> TRUE,
    bytes |-> <<17, wh[1], wh[2], 0, 0, 3, 0>> \o OneBlock(k, v, RunStream(r))] :
     wh \in {<<1, 1>>, <<1, 2>>}, r \in RunLists,
     k \in {k \in Keys : k.len = 16}, v \in IVs}

\* The frame counts and ciphertext lengths of the files of type 0x09.
PicCounts == 0..5

CipherLengths == {15, 16, 32, 1536}

\* Files of type 0x09: a frame count, a speed of 300 in two bytes, and the
\* ciphertext.
Animated09Files ==
  {[exists |-> TRUE,
    bytes |-> <<9, n, 1, 44>> \o [i \in 1..l |-> BodyByte(9 + n, i)]] :
     n \in PicCounts, l \in CipherLengths}

AssetFiles ==
  {[exists |-> TRUE, bytes |-> <<>>], [exists |-> FALSE, bytes |-> <<>>]}
  \cup
  {[exists |-> TRUE, bytes |-> <<t>> \o [i \in 1..n |-> BodyByte(t, i)]] :
     t \in Tags, n \in BodyLengths}
  \cup Static11Files
  \cup Animated09Files

BinInputs ==
  {[file |-> f, key |-> k, iv |-> v, outFile |-> "out.gif"] :
     f \in AssetFiles, k \in Keys, v \in IVs}

InitBin ==
  /\ pc = "call"
  /\ args \in BinInputs
  /\ device = None
  /\ debug = FALSE
  /\ filename = <<>>
  /\ file = 0
  /\ frame = 0
  /\ frames = <<>>
  /\ rgb = <<>>
  /\ images = None
  /\ fileData = None
  /\ calls = <<>>
  /\ wire = <<>>
  /\ api = <<>>
  /\ user = None
  /\ handles = NoHandle
  /\ disk = None
  /\ result = None

\* _binFileToGIF(file, key, iv, outFile)
Bin_binFileToGIF ==
  /\ pc = "call"
  /\ LET out == _binFileToGIF(args.file, args.key, args.iv, args.outFile)
     IN  /\ pc' = IF out.raised THEN "raised" ELSE "returned"
         /\ result' = IF out.raised THEN [raised |-> out.error] ELSE [returned |-> None]
         /\ fileData' = out.fileData
         /\ images' = out.gif
         /\ handles' = [opened |-> out.opened, closed |-> out.closed]
         /\ disk' \in Written(out.gif, disk)
  /\ UNCHANGED <<args, device, debug, filename, file, frame, frames, rgb, calls, wire,
                 user, api>>

NextBin == Bin_binFileToGIF

SpecBin == InitBin /\ [][NextBin]_vars

\* ------------------------------------------- SpecDl: downloadOnlineGIF

\* The file data the online API answers with.
OnlineFileData ==
  {<<>>, <<10, 20, 30>>, <<1, 2, 3, 4, 5, 6, 7, 8, 9, 10, 11, 12>>,
   [i \in 1..768 |-> BodyByte(1, i)]}

\* What the online API answers to Cloud/GetFileData: the data of a file,
\* with the keys downloadOnlineGIF reads or without some of them, an error
\* code, an empty answer, or nothing (the request fails).
OnlineReplies ==
  {[ReturnCode |-> 0, FileData |-> fd, FileName |-> fn, PicCount |-> n, Speed |-> 100] @@ extra :
     fd \in OnlineFileData, fn \in {"", "among_us.gif"}, n \in 0..2,
     extra \in {<<>>, [Filename |-> "image.gif"]}}
  \cup
  {[ReturnCode |-> 0, FileData |-> fd, Filename |-> "image.gif"] : fd \in OnlineFileData}
  \cup
  {[ReturnCode |-> 0, FileData |-> fd, FileName |-> "", Filename |-> "image.gif",
    PicCount |-> 1] : fd \in OnlineFileData}
  \cup
  {[ReturnCode |-> 0], [ReturnCode |-> 1, ReturnMessage |-> "error"], [ReturnCode |-> 1],
   <<>>, ConnectionError}

\* The calls of downloadOnlineGIF tried.
DlInputs ==
  {[fileId |-> "group1/M00/0F/65/eEwpPWKMBumEPHcwAAAAAPueyb01234421", outFile |-> o] :
     o \in {None, [class |-> "str", value |-> "out.gif"]}}

InitDl ==
  /\ pc = "call"
  /\ args \in DlInputs
  /\ device \in {None, Pixoo}
  /\ debug \in BOOLEAN
  /\ filename = <<>>
  /\ file = 0
  /\ frame = 0
  /\ frames = <<>>
  /\ rgb = <<>>
  /\ images = None
  /\ fileData = None
  /\ calls = <<>>
  /\ wire = <<>>
  /\ api = <<>>
  /\ user = None
  /\ handles = NoHandle
  /\ disk = None
  /\ result = None

\* data = sendOnlineCommand("Cloud/GetFileData", {"FileId": fileId},
\* requireDevice=False, requireLogin=False); the global user is not read.
Dl_sendOnlineCommand ==
  /\ pc = "call"
  /\ \E reply \in OnlineReplies :
       LET out == sendOnlineCommand(device, None, debug, "Cloud/GetFileData",
                                    [FileId |-> args.fileId], FALSE, FALSE, reply)
       IN  /\ wire' = wire \o out.requests
           /\ api' = api \o out.api
           /\ pc' = IF out.raised THEN "raised" ELSE "data"
           /\ result' = IF out.raised THEN [raised |-> out.error] ELSE result
           /\ fileData' = IF out.raised THEN fileData ELSE out.value
  /\ UNCHANGED <<args, device, debug, filename, file, frame, frames, rgb, images, calls,
                 handles, disk, user>>

\* The rest of downloadOnlineGIF: the check for empty file data, outFile,
\* _imageDataToGIF(data, data["Filename"]).
Dl_imageDataToGIF ==
  /\ pc = "data"
  /\ LET out == downloadOnlineGIF(fileData, args.outFile)
     IN  /\ pc' = IF out.raised THEN "raised" ELSE "returned"
         /\ result' = IF out.raised THEN [raised |-> out.error] ELSE [returned |-> None]
         /\ images' = out.gif
         /\ disk' \in Written(out.gif, disk)
  /\ UNCHANGED <<args, device, debug, filename, file, frame, frames, rgb, fileData, calls,
                 wire, handles, user, api>>

NextDl == Dl_sendOnlineCommand \/ Dl_imageDataToGIF

SpecDl == InitDl /\ [][NextDl]_vars

\* ------------------------------ SpecApi: the session and the wrappers

\* A device on the network, as Device/ReturnSameLANDevice lists it.
LanDevice ==
  [class |-> "dict", DeviceName |-> "Pixoo64", DeviceId |-> 300000020,
   DevicePrivateIP |-> "192.168.1.65", DeviceMac |-> "a8032aff46b1"]

\* What setDevice is handed: nothing, an IP address, a DivoomDevice, a dict
\* of a device, a dict that lacks keys.
DeviceDetails ==
  {None, [class |-> "str", value |-> "192.168.1.65"], Pixoo, LanDevice,
   [class |-> "dict", DevicePrivateIP |-> "192.168.1.66"]}

\* The codes an answer carries: none, a ReturnCode, an error_code, or both.
ReturnCodes == {<<>>, [ReturnCode |-> 0], [ReturnCode |-> 1, ReturnMessage |-> "error"],
                [ReturnCode |-> 1]}

ErrorCodes == {<<>>, [error_code |-> 0], [error_code |-> 1]}

\* What an answer carries besides: nothing, settings, a login, a night
\* mode schedule, the devices found.
Bodies ==
  {<<>>, [Brightness |-> 70], [Token |-> 1700000000, UserId |-> 400000001],
   [StartTime |-> 1380, EndTime |-> 420, OnOff |-> 1, Brightness |-> 50],
   [DeviceList |-> <<LanDevice>>]}

\* What the device or the online API answers: a dict, or nothing (the
\* request fails).
ApiReplies ==
  {rc @@ ec @@ body : rc \in ReturnCodes, ec \in ErrorCodes, body \in Bodies}
  \cup {ConnectionError}

\* What the read after a set command is answered.
Rereads ==
  {[error_code |-> 0, Brightness |-> 70], [error_code |-> 1], [Brightness |-> 70],
   [ReturnCode |-> 0, StartTime |-> 1380, EndTime |-> 420, OnOff |-> 1, Brightness |-> 50],
   [ReturnCode |-> 0, StartTime |-> 1440, EndTime |-> 420, OnOff |-> 1, Brightness |-> 50],
   ConnectionError}

\* The start and end handed to setNightMode: minutes since midnight, a
\* datetime.time, or None.
NightTimes ==
  {None, [class |-> "int", value |-> 420], [class |-> "int", value |-> 1380],
   [class |-> "int", value |-> 1441], [class |-> "time", hour |-> 23, minute |-> 0],
   [class |-> "time", hour |-> 7, minute |-> 0]}

\* The hostnames handed to callPixooAPI: none (the device's), a host, "".
Hostnames == {None, OnlineHost, [class |-> "str", value |-> ""]}

InitApi ==
  /\ pc = "idle"
  /\ args = None
  /\ device = None
  /\ user = None
  /\ debug \in BOOLEAN
  /\ filename = <<>>
  /\ file = 0
  /\ frame = 0
  /\ frames = <<>>
  /\ rgb = <<>>
  /\ images = None
  /\ fileData = None
  /\ calls = <<>>
  /\ wire = <<>>
  /\ api = <<>>
  /\ handles = NoHandle
  /\ disk = None
  /\ result = None

\* A call made with these arguments ended as `out` says.
Ended(arguments, out) ==
  /\ pc' = IF out.raised THEN "raised" ELSE "returned"
  /\ args' = arguments
  /\ result' = IF out.raised THEN [raised |-> out.error] ELSE [returned |-> out.value]
  /\ wire' = out.requests
  /\ api' = out.api
  /\ calls' = out.calls
  /\ UNCHANGED <<debug, filename, file, frame, frames, rgb, images, fileData, handles, disk>>

\* setDevice(deviceDetails)
Api_setDevice ==
  /\ pc = "idle"
  /\ \E d \in DeviceDetails, reply \in {[ReturnCode |-> 0, DeviceList |-> <<LanDevice>>]} :
       LET out == setDevice(device, user, debug, d, reply)
       IN  /\ Ended([op |-> "setDevice", deviceDetails |-> d, replies |-> <<reply>>], out)
           /\ device' = out.device
  /\ UNCHANGED user

\* findDevices()
Api_findDevices ==
  /\ pc = "idle"
  /\ \E reply \in ApiReplies :
       Ended([op |-> "findDevices", replies |-> <<reply>>],
             findDevices(device, user, debug, reply))
  /\ UNCHANGED <<device, user>>

\* divoomLogin(email, password, alreadyHashed)
Api_divoomLogin ==
  /\ pc = "idle"
  /\ \E hashed \in BOOLEAN, reply \in ApiReplies :
       LET out == divoomLogin(device, user, debug, "me@example.com", "secret", hashed, reply)
       IN  /\ Ended([op |-> "divoomLogin", alreadyHashed |-> hashed, replies |-> <<reply>>],
                    out)
           /\ user' = out.user
  /\ UNCHANGED device

\* divoomLogout(userID, token)
Api_divoomLogout ==
  /\ pc = "idle"
  /\ \E reply \in ApiReplies :
       LET out == divoomLogout(device, user, debug, 400000001, 1700000000, reply)
       IN  /\ Ended([op |-> "divoomLogout", replies |-> <<reply>>], out)
           /\ user' = out.user
  /\ UNCHANGED device

\* sendCommand(command, parameters, batch)
Api_sendCommand ==
  /\ pc = "idle"
  /\ \E batch \in BOOLEAN, reply \in ApiReplies,
        parameters \in {<<>>, [Brightness |-> 50], [Command |-> "Device/Hearbeat"]} :
       LET k == [command |-> "Channel/SetBrightness", parameters |-> parameters]
           out == sendCommand(device, debug, k.command, k.parameters, batch, reply)
       IN  Ended([op |-> "sendCommand", command |-> k.command, parameters |-> parameters,
                  batch |-> batch, replies |-> <<reply>>],
                 out @@ [calls |-> <<k>>])
  /\ UNCHANGED <<device, user>>

\* sendOnlineCommand(command, parameters, requireLogin, requireDevice)
Api_sendOnlineCommand ==
  /\ pc = "idle"
  /\ \E requireLogin \in BOOLEAN, requireDevice \in BOOLEAN, reply \in ApiReplies :
       Ended([op |-> "sendOnlineCommand", command |-> "Alarm/Get",
              parameters |-> [Page |-> 1], requireLogin |-> requireLogin,
              requireDevice |-> requireDevice, replies |-> <<reply>>],
             sendOnlineCommand(device, user, debug, "Alarm/Get", [Page |-> 1],
                               requireLogin, requireDevice, reply) @@ [calls |-> <<>>])
  /\ UNCHANGED <<device, user>>

\* callPixooAPI(data, hostname, endpoint, https)
Api_callPixooAPI ==
  /\ pc = "idle"
  /\ \E hostname \in Hostnames, https \in BOOLEAN, reply \in ApiReplies :
       Ended([op |-> "callPixooAPI", data |-> [Command |-> "Device/Hearbeat"],
              hostname |-> hostname, endpoint |-> "post", https |-> https,
              replies |-> <<reply>>],
             callPixooAPI(device, debug, [Command |-> "Device/Hearbeat"], hostname, "post",
                          https, reply) @@ [calls |-> <<>>])
  /\ UNCHANGED <<device, user>>

\* setStopwatch(start, reset)
Api_setStopwatch ==
  /\ pc = "idle"
  /\ \E start \in BOOLEAN, reset \in BOOLEAN, reply \in {[error_code |-> 0]} :
       Ended([op |-> "setStopwatch", start |-> start, reset |-> reset,
              replies |-> <<reply>>],
             setStopwatch(device, debug, start, reset, reply))
  /\ UNCHANGED <<device, user>>

\* setBrightness(brightness)
Api_setBrightness ==
  /\ pc = "idle"
  /\ \E reply \in ApiReplies, reread \in Rereads :
       Ended([op |-> "setBrightness", brightness |-> 50, replies |-> <<reply, reread>>],
             setBrightness(device, debug, 50, reply, reread))
  /\ UNCHANGED <<device, user>>

\* setNightMode(state, start, end, brightness)
Api_setNightMode ==
  /\ pc = "idle"
  /\ \E state \in BOOLEAN, start \in NightTimes, end \in NightTimes,
        reply \in {[ReturnCode |-> 0], [ReturnCode |-> 1, ReturnMessage |-> "error"]},
        reread \in Rereads :
       Ended([op |-> "setNightMode", state |-> state, start |-> start, end |-> end,
              brightness |-> 30, replies |-> <<reply, reread>>],
             setNightMode(device, user, debug, state, start, end, 30, reply, reread))
  /\ UNCHANGED <<device, user>>

\* The call has ended and the caller makes its next: the module keeps
\* device, user and debug, and nothing else.
Api_next ==
  /\ pc \in {"returned", "raised"}
  /\ pc' = "idle"
  /\ args' = None
  /\ result' = None
  /\ calls' = <<>>
  /\ wire' = <<>>
  /\ api' = <<>>
  /\ UNCHANGED <<device, user, debug, filename, file, frame, frames, rgb, images, fileData,
                 handles, disk>>

NextApi ==
  \/ Api_setDevice
  \/ Api_findDevices
  \/ Api_divoomLogin
  \/ Api_divoomLogout
  \/ Api_sendCommand
  \/ Api_sendOnlineCommand
  \/ Api_callPixooAPI
  \/ Api_setStopwatch
  \/ Api_setBrightness
  \/ Api_setNightMode
  \/ Api_next

SpecApi == InitApi /\ [][NextApi]_vars

\* ------------------------------------------------------------ the claims

\* _fileToFrames has returned (and its packets may have been rebuilt).
Encoded == pc \in {"returned", "rebuilt"}

\* C1: for any source with n frames and any maxFrames, _fileToFrames returns
\* exactly min(n, maxFrames) packets without raising, the i-th with offset i
\* and every one with totalFrames = min(n, maxFrames); a source that is not
\* animated counts as n = 1.
C1_FrameCap ==
  (pc # "call" /\ args.filename.readable) =>
    LET n == Min(FrameCount(args.filename), args.maxFrames)
    IN  /\ pc # "raised"
        /\ Len(frames) = n
        /\ \A k \in 1..Len(frames) :
             frames[k].offset = k - 1 /\ frames[k].totalFrames = n

\* C5: a source frame narrower than the target size and exactly as high
\* (40x64 for the target 64) is encoded as a frame of size x size pixels.
C5_PaddedToSquare ==
  (Encoded /\ args.filename.w < args.size /\ args.filename.h = args.size) =>
    \A k \in 1..Len(frames) :
      /\ rgb[k].w = args.size
      /\ rgb[k].h = args.size
      /\ Len(b64decode(frames[k].data)) = args.size * args.size * 3

\* C6: every packet _fileToFrames(size=s) returns has its size field equal
\* to s, whatever the dimensions of the source.
C6_SizeIsTarget ==
  Encoded => \A k \in 1..Len(frames) : frames[k].size = args.size

\* C7: the payload of every packet decodes to exactly w*h*3 bytes for its
\* frame of w x h pixels (as normalised): the R, G, B of each pixel in turn,
\* the pixels row by row.
C7_PayloadIsRGB ==
  Encoded =>
    \A k \in 1..Len(frames) :
      LET im == rgb[k]
          bytes == b64decode(frames[k].data)
      IN  /\ Len(bytes) = im.w * im.h * 3
          /\ \A y \in 0..(im.h - 1) : \A x \in 0..(im.w - 1) : \A c \in 1..3 :
               bytes[3 * (y * im.w + x) + c] = _pixel(im, x, y)[c]

\* The packet of a 40x64 frame: 7680 bytes, 10240 base64 characters.
C7_Witness ==
  /\ Encoded
  /\ Len(frames) >= 1
  /\ rgb[1].w = 40
  /\ rgb[1].h = 64
  /\ Len(frames[1].data) = 10240

\* C8 as stated: each packet's speed equals the duration the source reports
\* for that frame, and 1000 when it reports none.
C8_SpeedIsReported ==
  Encoded =>
    \A k \in 1..Len(frames) :
      LET info == args.filename.info[k]
      IN  IF info = NoDuration THEN frames[k].speed = 1000
          ELSE frames[k].speed * info[2] = info[1]

\* C8, amended: each packet's speed is the duration the source reports for
\* that frame cut down to whole milliseconds (the duration itself when it is
\* whole), and 1000 when the source reports none.
C8_SpeedIsTruncated ==
  Encoded =>
    \A k \in 1..Len(frames) :
      LET info == args.filename.info[k]
          speed == frames[k].speed
      IN  IF info = NoDuration THEN speed = 1000
          ELSE speed * info[2] <= info[1] /\ info[1] < (speed + 1) * info[2]

\* A packet of a frame whose reported duration, 100/3 ms, is no whole number
\* of milliseconds.
C8_Witness ==
  /\ Encoded
  /\ \E k \in 1..Len(frames) :
       /\ args.filename.info[k] = <<100, 3>>
       /\ frames[k].speed = 33

\* C9: a still 64x64 image encoded by _fileToFrames and its payload,
\* base64-decoded, put through the reconstruction of _imageDataToGIF with
\* frameCount = 1 gives one 64x64 frame with the pixels of the original, in
\* the original order.
C9_RoundTrip ==
  (/\ pc = "rebuilt"
   /\ FrameCount(args.filename) = 1
   /\ args.filename.w = 64
   /\ args.filename.h = 64
   /\ args.size = 64) =>
    /\ ~images.raised
    /\ Len(images.images) = 1
    /\ images.images[1].size = 64
    /\ images.images[1].pixels = getdata(seek(args.filename, 0))

\* A still 64x64 image whose packet was rebuilt into a frame of 4096 pixels.
C9_Witness ==
  /\ pc = "rebuilt"
  /\ ~args.filename.has_n_frames
  /\ args.filename.w = 64
  /\ args.filename.h = 64
  /\ args.size = 64
  /\ images.of = 1
  /\ ~images.raised
  /\ Len(images.images[1].pixels) = 4096

\* sendGIF was called with GIFType.LOCALFILE or GIFType.URLDATA.
LocalRun == args.type \in {GIFType.LOCALFILE, GIFType.URLDATA}

IsFrame(request) == request.json.Command = "Draw/SendHttpGif"

IsReset(request) == request.json.Command = "Draw/ResetHttpGifId"

\* The frame packets sent so far, in the order sent.
FramesSent == SelectSeq(wire, IsFrame)

\* The number of packets of the source at index j (0-based) of the list.
PacketsOf(j) == Min(FrameCount(filename[j + 1]), DefaultMaxFrames)

C3_ResetOnceFirst ==
  LocalRun =>
    /\ Cardinality({i \in 1..Len(wire) : IsReset(wire[i])}) <= 1
    /\ \A i \in 1..Len(wire) : IsFrame(wire[i]) => \E j \in 1..(i - 1) : IsReset(wire[j])
    /\ \A i \in 2..Len(calls) : calls[i].command # "Draw/ResetHttpGifId"
    /\ pc \in {"file", "frame", "returned"} =>
         Cardinality({i \in 1..Len(wire) : IsReset(wire[i])}) = 1

\* A run that has returned after sending frames.
C3_Witness ==
  /\ LocalRun
  /\ pc = "returned"
  /\ Len(FramesSent) >= 2
  /\ IsReset(wire[1])

GIFDataFields == {"PicNum", "PicWidth", "PicOffset", "PicID", "PicSpeed", "PicData"}

\* The call hands sendCommand the command Draw/SendHttpGif and the six
\* fields of the packet p.
HandsOver(call, p) ==
  /\ call.command = "Draw/SendHttpGif"
  /\ DOMAIN call.parameters = GIFDataFields
  /\ call.parameters.PicNum = p.totalFrames
  /\ call.parameters.PicWidth = p.size
  /\ call.parameters.PicOffset = p.offset
  /\ call.parameters.PicID = p.id
  /\ call.parameters.PicSpeed = p.speed
  /\ call.parameters.PicData = p.data

\* C4: for every packet p sent by sendGIF with type DATA, the parameters
\* handed to sendCommand are exactly PicNum, PicWidth, PicOffset, PicID,
\* PicSpeed and PicData, with the values of p.totalFrames, p.size, p.offset,
\* p.id, p.speed and p.data, and the command is Draw/SendHttpGif.
C4_SixFields ==
  /\ (args.type = GIFType.DATA /\ pc # "call") =>
       Len(calls) = 1 /\ HandsOver(calls[1], args.filename.packet)
  /\ (LocalRun /\ pc = "frame" /\ frame >= 1) =>
       HandsOver(calls[Len(calls)], frames[frame])
  /\ (LocalRun /\ pc = "raised" /\ Len(calls) >= 2 /\ result.raised # "OSError") =>
       HandsOver(calls[Len(calls)], frames[frame + 1])
  /\ (LocalRun \/ args.type = GIFType.DATA) =>
       \A i \in 1..Len(wire) :
         IsFrame(wire[i]) => DOMAIN wire[i].json = GIFDataFields \cup {"Command"}

\* A packet handed to sendGIF with type DATA and sent to the device.
C4_Witness ==
  /\ args.type = GIFType.DATA
  /\ pc = "returned"
  /\ Len(wire) = 1
  /\ wire[1].json.PicID = 9
  /\ wire[1].json.PicOffset = 4

\* C10: for each of the leading tags 0x1E, 0x0C, 0x1A and 0x00,
\* _binFileToGIF ends with 'Filetype not yet supported', which is not the
\* 'Unknown File Type' of a tag the match does not name.
C10_NotYetSupported ==
  (/\ pc # "call"
   /\ args.file.exists
   /\ AES_new_ok(args.key, args.iv)
   /\ Len(args.file.bytes) >= 1
   /\ args.file.bytes[1] \in {30, 12, 26, 0}) =>
    /\ pc = "raised"
    /\ result.raised = "Filetype not yet supported"
    /\ result.raised # "Unknown File Type"

\* _binFileToGIF has ended, on a file that exists.
Decoded == pc \in {"raised", "returned"} /\ args.file.exists

\* The leading tag of the file is t.
TagIs(t) == Len(args.file.bytes) >= 1 /\ args.file.bytes[1] = t

\* AES.new accepted the key and the IV.
CipherMade == AES_new_ok(args.key, args.iv)

\* The tags the match names: 08, 09, 11, 1E, 0C, 1a, 00 and those of the
\* last list that spell a byte.
DispatchTable == {8, 9, 17, 30, 12, 26, 0, 18, 19, 7, 15, 22, 23}

\* _imageDataToGIF was not called and no file was written.
AssemblerNotReached == images = None /\ disk = None

C12_Static16 ==
  (Decoded /\ TagIs(8) /\ CipherMade /\ Len(args.file.bytes) = 1 + 768) =>
    /\ Len(fileData.FileData) = 768
    /\ fileData.PicCount = 1
    /\ ~images.raised
    /\ Len(images.images) = 1
    /\ images.images[1].size = 16
    /\ Len(images.images[1].pixels) = 16 * 16

\* A file of type 0x08 with 768 bytes of ciphertext, decoded.
C12_Witness ==
  /\ pc = "returned"
  /\ TagIs(8)
  /\ Len(fileData.FileData) = 768
  /\ images.images[1].size = 16

\* C13: for tag 0x09, a decrypted payload whose length the declared frame
\* count does not divide makes decoding fail, and no frames come of it.
C13_ExactChunks ==
  (/\ Decoded
   /\ TagIs(9)
   /\ CipherMade
   /\ Len(args.file.bytes) >= 4
   /\ (Len(args.file.bytes) - 4) % BlockSize = 0
   /\ args.file.bytes[2] > 0
   /\ (Len(args.file.bytes) - 4) % args.file.bytes[2] # 0) =>
    /\ pc = "raised"
    /\ disk = None

\* C14: for tag 0x11 with W and H width and height units, decoding goes
\* past decompression only with (16W)*(16H)*3 bytes decompressed.
C14_LengthChecked ==
  (/\ Decoded
   /\ TagIs(17)
   /\ CipherMade
   /\ Len(args.file.bytes) >= 7
   /\ (Len(args.file.bytes) - 7) % BlockSize = 0
   /\ result # [raised |-> "lzo.error"]) =>
    Len(fileData.FileData)
      = (16 * args.file.bytes[2]) * (16 * args.file.bytes[3]) * 3

\* C15: when chunkSize / 3 is no perfect square, the reconstruction fails
\* and makes no frame.
C15_PerfectSquare ==
  (/\ Decoded
   /\ images # None
   /\ fileData.PicCount > 0
   /\ LET chunkSize == Len(fileData.FileData) \div fileData.PicCount
      IN  /\ chunkSize > 0
          /\ \/ chunkSize % 3 # 0
             \/ isqrt(chunkSize \div 3) * isqrt(chunkSize \div 3) # chunkSize \div 3) =>
    /\ images.raised
    /\ disk = None

\* C16: the animation _imageDataToGIF writes has frameCount frames, the
\* i-th of them the i-th frame rebuilt, each with the decoded Speed for
\* its duration.
C16_FramesOnce ==
  (Decoded /\ disk # None) =>
    /\ Len(disk.frames) = fileData.PicCount
    /\ Len(disk.frames) = Len(images.images)
    /\ \A i \in 1..Len(disk.frames) :
         /\ i <= Len(images.images) => disk.frames[i].image = images.images[i]
         /\ disk.frames[i].duration = fileData.Speed

\* C17: an asset of one frame is written as one frame that does not loop
\* (loop = 0 is Pillow's loop for ever).
C17_StillDoesNotLoop ==
  (Decoded /\ disk # None /\ fileData.PicCount = 1) =>
    /\ Len(disk.frames) = 1
    /\ disk.loop # 0

\* The bytes of the header of a file with tag t.
HeaderLength(t) == CASE t = 8 -> 1 [] t = 9 -> 4 [] t = 17 -> 7

\* C18: for tags 0x08, 0x09 and 0x11, ciphertext after the header that is
\* no whole number of 16-byte blocks makes _binFileToGIF raise; nothing of
\* it is decrypted, and neither reconstruction nor output is reached.
C18_DecryptFailureReported ==
  (Decoded /\ \E t \in {8, 9, 17} :
                /\ TagIs(t)
                /\ Len(args.file.bytes) >= HeaderLength(t)
                /\ (Len(args.file.bytes) - HeaderLength(t)) % 16 # 0) =>
    /\ pc = "raised"
    /\ fileData.FileData = <<>>
    /\ AssemblerNotReached

\* A file of type 0x09 with 15 bytes of ciphertext, and a key the cipher
\* accepts: the call raised the ValueError of decrypt.
C18_Witness ==
  /\ Decoded
  /\ TagIs(9)
  /\ Len(args.file.bytes) = 4 + 15
  /\ CipherMade
  /\ result = [raised |-> "ValueError"]

\* C19: the handle opened for the source is released by the time the call
\* returns or raises.
C19_HandlesReleased ==
  pc \in {"returned", "raised", "rebuilt"} => (handles.opened => handles.closed)

\* The online API answered with the data of a file, and it is empty.
EmptySourceData ==
  /\ fileData # None
  /\ "FileData" \in DOMAIN fileData
  /\ fileData.FileData = <<>>

\* C20: when the asset fetched exists and its FileData is empty,
\* downloadOnlineGIF raises 'No file data! Image may be set to private';
\* neither reconstruction nor output is reached, and no call that reached
\* the reconstruction ends with that error.
C20_EmptySourceData ==
  /\ (pc \in {"raised", "returned"} /\ EmptySourceData) =>
       /\ result = [raised |-> "No file data! Image may be set to private"]
       /\ AssemblerNotReached
  /\ (pc \in {"raised", "returned"} /\ images # None) =>
       result # [raised |-> "No file data! Image may be set to private"]

\* The API answered with a file name and no file data, and the call raised.
C20_Witness ==
  /\ pc = "raised"
  /\ EmptySourceData
  /\ "FileName" \in DOMAIN fileData
  /\ fileData.FileName = "among_us.gif"
  /\ Len(wire) = 1
  /\ result = [raised |-> "No file data! Image may be set to private"]

\* C21: downloadOnlineGIF with file data writes the GIF to the outFile the
\* caller gave, else to the FileName Divoom reports when it is not empty,
\* else to 'image.gif'.
C21_OutFile ==
  (pc = "returned" /\ disk # None) =>
    disk.outFile = IF args.outFile # None THEN args.outFile.value
                   ELSE IF "FileName" \in DOMAIN fileData /\ fileData.FileName # ""
                     THEN fileData.FileName
                   ELSE "image.gif"

\* C28: when a source of a sendGIF run of type LOCALFILE or URLDATA cannot
\* be loaded, the run raises and has handed no Draw/SendHttpGif packet to
\* sendCommand.
C28_NoPartialOutput ==
  (LocalRun /\ pc = "raised" /\ result = [raised |-> "OSError"]) =>
    \A i \in 1..Len(calls) : calls[i].command # "Draw/SendHttpGif"

\* A call of the function op has ended.
EndedOp(op) == pc \in {"returned", "raised"} /\ args.op = op

\* C22: after divoomLogout has returned True the session is logged out:
\* _isLoggedIn() is False.
C22_LoggedOut ==
  (EndedOp("divoomLogout") /\ pc = "returned") => ~_isLoggedIn(user)

\* C23: setDevice called with an IP address sets the global device to the
\* discovered device with that DevicePrivateIP, and returns it.
C23_SetDeviceByIP ==
  (/\ EndedOp("setDevice")
   /\ args.deviceDetails.class = "str"
   /\ \E i \in 1..Len(args.replies[1].DeviceList) :
        args.replies[1].DeviceList[i].DevicePrivateIP = args.deviceDetails.value) =>
    /\ pc = "returned"
    /\ "DevicePrivateIP" \in DOMAIN device
    /\ device.DevicePrivateIP = args.deviceDetails.value
    /\ result = [returned |-> device]

\* sendCommand with batch=True returned the command merged with the
\* parameters and called callPixooAPI not at all; with batch=False it
\* called callPixooAPI once, with that mapping.
BatchOrSend ==
  LET mapping == args.parameters @@ [Command |-> args.command]
  IN  IF args.batch
        THEN /\ pc = "returned"
             /\ result.returned = mapping
             /\ api = <<>>
             /\ wire = <<>>
        ELSE /\ Len(api) = 1
             /\ api[1].data = mapping
             /\ Len(wire) <= 1

\* C24 as stated: sendCommand with batch=True returns {Command: command}
\* merged with the parameters and makes no call of callPixooAPI; with
\* batch=False it calls callPixooAPI exactly once with that mapping.
C24_Batch == EndedOp("sendCommand") => BatchOrSend

\* C24: with a device set, sendCommand does as C24 states; with none it
\* raises 'No device has been set up', whatever batch is, and calls
\* callPixooAPI not at all.
C24_BatchWithDevice ==
  EndedOp("sendCommand") =>
    IF _checkForDevice(device) THEN BatchOrSend
    ELSE /\ result = [raised |-> "No device has been set up"]
         /\ api = <<>>
         /\ wire = <<>>

\* With a device set, a batched command whose parameters name a Command of
\* their own was returned and not sent.
C24_Witness ==
  /\ EndedOp("sendCommand")
  /\ _checkForDevice(device)
  /\ args.batch
  /\ args.parameters = [Command |-> "Device/Hearbeat"]
  /\ pc = "returned"
  /\ api = <<>>

\* C25: with debug True, callPixooAPI with a valid URL makes no request
\* and returns without raising.
C25_DebugReturns ==
  (/\ EndedOp("callPixooAPI")
   /\ debug
   /\ args.hostname = OnlineHost) =>
    /\ wire = <<>>
    /\ pc = "returned"

\* C26: with a device set, setStopwatch delivers a single Draw/CommandList
\* batch, the reset command (Status 2) before the start or stop command
\* when reset is True and the start or stop command alone when it is not,
\* and returns True.
C26_StopwatchBatch ==
  (EndedOp("setStopwatch") /\ _checkForDevice(device)) =>
    /\ pc = "returned"
    /\ Len(wire) = 1
    /\ wire[1].json.Command = "Draw/CommandList"
    /\ LET startOrStop == [Command |-> "Tools/SetStopWatch",
                           Status |-> IF args.start THEN 1 ELSE 0]
           toReset == [Command |-> "Tools/SetStopWatch", Status |-> 2]
       IN  wire[1].json.CommandList
             = IF args.reset THEN <<toReset, startOrStop>> ELSE <<startOrStop>>

\* C27: setNightMode with start and end in minutes since midnight, neither
\* above 1440, sends Channel/SetNightView with that StartTime and EndTime,
\* the Brightness given, and the OnOff given, or 0 when start equals end.
C27_NightModeSent ==
  (/\ EndedOp("setNightMode")
   /\ args.start.class = "int"
   /\ args.end.class = "int"
   /\ args.start.value <= 1440
   /\ args.end.value <= 1440
   /\ _isLoggedIn(user)
   /\ _checkForDevice(device)
   /\ ~debug) =>
    /\ Len(wire) >= 1
    /\ wire[1].url.path = "Channel/SetNightView"
    /\ wire[1].json.StartTime = args.start.value
    /\ wire[1].json.EndTime = args.end.value
    /\ wire[1].json.Brightness = args.brightness
    /\ wire[1].json.OnOff = IF args.start = args.end THEN 0
                            ELSE IF args.state THEN 1 ELSE 0

\* The keys of a session.
SessionKeys == {"Token", "UserId", "DeviceId"}

\* C29: sendOnlineCommand hands a request to callPixooAPI only if
\* requireLogin implies a user is logged in and requireDevice implies a
\* device is set; otherwise it raises and nothing is sent.  With both
\* flags False (as in findDevices and divoomLogin) the request is handed
\* over whatever the session, and carries no Token, UserId or DeviceId.
C29_SessionGate ==
  /\ EndedOp("sendOnlineCommand") =>
       LET allowed == /\ args.requireLogin => _isLoggedIn(user)
                      /\ args.requireDevice => _checkForDevice(device)
       IN  /\ (api # <<>> \/ wire # <<>>) => allowed
           /\ ~allowed => pc = "raised" /\ api = <<>> /\ wire = <<>>
           /\ (~args.requireLogin /\ ~args.requireDevice) =>
                /\ Len(api) = 1
                /\ DOMAIN api[1].data \cap SessionKeys = {}
                /\ ~debug => Len(wire) = 1
                /\ \A i \in 1..Len(wire) : DOMAIN wire[i].json \cap SessionKeys = {}
  /\ (EndedOp("findDevices") \/ EndedOp("divoomLogin")) =>
       /\ Len(api) = 1
       /\ DOMAIN api[1].data \cap SessionKeys = {}
       /\ \A i \in 1..Len(wire) : DOMAIN wire[i].json \cap SessionKeys = {}

\* With no device and no user, a command that asks for neither was sent.
C29_Witness ==
  /\ EndedOp("sendOnlineCommand")
  /\ ~args.requireLogin
  /\ ~args.requireDevice
  /\ device = None
  /\ user = None
  /\ Len(wire) = 1
  /\ wire[1].json = [Page |-> 1]

\* The answer carries a ReturnCode or an error_code that is not 0.
Rejected(reply) ==
  \/ "ReturnCode" \in DOMAIN reply /\ reply.ReturnCode # 0
  \/ "error_code" \in DOMAIN reply /\ reply.error_code # 0

\* C30: callPixooAPI raises whenever the answer carries a ReturnCode or an
\* error_code that is not 0, and returns the answer as it is when every
\* code it carries is 0; so setBrightness does not read the brightness
\* back after a set command that was rejected.
C30_ErrorCodesRaise ==
  /\ (EndedOp("callPixooAPI") /\ Len(wire) = 1 /\ args.replies[1] # ConnectionError) =>
       IF Rejected(args.replies[1]) THEN pc = "raised"
       ELSE pc = "returned" /\ result.returned = args.replies[1]
  /\ (/\ EndedOp("setBrightness")
      /\ Len(wire) >= 1
      /\ args.replies[1] # ConnectionError
      /\ Rejected(args.replies[1])) =>
       /\ pc = "raised"
       /\ Len(wire) = 1
       /\ Len(calls) = 1
       /\ calls[1].command = "Channel/SetBrightness"

\* The device answered the set command of setBrightness with error_code 1.
C30_Witness ==
  /\ EndedOp("setBrightness")
  /\ args.replies[1] = [error_code |-> 1]
  /\ Len(wire) = 1
  /\ wire[1].json.Command = "Channel/SetBrightness"
  /\ pc = "raised"

====
